---- MODULE Spec2Model ----
(***************************************************************************)
(* Model of the offline-first list store of smart-shopping-list-frontend:  *)
(* src/data/listStore/{storage,listDocs,migration,opsQueue,api}.ts.        *)
(*                                                                         *)
(* The browser's localStorage is the program state.  Each key is one       *)
(* variable:                                                               *)
(*   legacy   "ssl.currentList"    the legacy single-list slot             *)
(*   index    "ssl.lists.index"    Array<ListMeta>                         *)
(*   cur      "ssl.currentListId"  the current selection                   *)
(*   docs     "ssl.list.<id>"      one ListSnapshot per list id            *)
(*   opsq     "ssl.pendingOps"     the offline mutation queue              *)
(* Ids are the values uuid() hands out (1, 2, ...), ISO timestamps are the *)
(* values of a clock (naturals, compared as the strings compare), JSON     *)
(* text is the value it parses to; a key that is absent and an optional    *)
(* field that is undefined are the sentinels below.                        *)
(***************************************************************************)
EXTENDS Integers, Sequences, FiniteSets, TLC

VARIABLES
    legacy,    \* the legacy slot
    index,     \* the index slot
    cur,       \* the current-selection slot
    docs,      \* the per-list documents, by id
    opsq,      \* the pending-ops slot
    nextId,    \* the next value of uuid()
    clock,     \* the value of nowIso() / now()
    fl,        \* the invocations of flushPendingOps, each with its local state
    migRuns,   \* history: how often the body of migrateIfNeeded has run
    origin,    \* history: the legacy slot of the storage when it was last fresh
    sync,      \* history: which queued ops were acknowledged, which were dropped
    last       \* history: the last operation, its argument and its result

vars == <<legacy, index, cur, docs, opsq, nextId, clock, fl, migRuns, origin, sync, last>>

storeVars == <<legacy, index, cur, docs, opsq, nextId, migRuns>>

(***************************************************************************)
(* Bounds of the model.                                                    *)
(***************************************************************************)
MaxIds == 2
MaxClock == 3
MaxItems == 1
MaxQueue == 3
MaxFlush == 2

(***************************************************************************)
(* Sentinels and input values.                                             *)
(***************************************************************************)
NoId == 0
NoTime == 0
LegacyId == 100
LegacyTime == 1
StartClock == LegacyTime + 1
NoName == "<undefined>"
DefaultName == "My list"

\* String.prototype.trim on the names the model uses.
Trim(n) ==
    CASE n = " a " -> "a"
      [] n = "  " -> ""
      [] OTHER -> n

\* String.prototype.toLowerCase on the names the model uses.
Lower(n) ==
    CASE n = "A" -> "a"
      [] n = "My list" -> "my list"
      [] OTHER -> n

\* fallbackName: (n && n.trim() ? n.trim() : "My list")
FallbackName(n) == IF n # NoName /\ Trim(n) # "" THEN Trim(n) ELSE DefaultName

\* normName: name.trim().toLowerCase()
NormName(n) == Lower(Trim(n))

(***************************************************************************)
(* Storage values.                                                         *)
(***************************************************************************)
LegacyAbsent == [st |-> "absent"]
LegacyCorrupt == [st |-> "corrupt"]
LegacyOk(snap) == [st |-> "ok", doc |-> snap]
IndexAbsent == [present |-> FALSE, metas |-> <<>>]
IndexOf(metas) == [present |-> TRUE, metas |-> metas]
NoDocs == [i \in {} |-> 0]

Snapshot(id, name, createdAt, updatedAt, items) ==
    [id |-> id, name |-> name, createdAt |-> createdAt, updatedAt |-> updatedAt,
     items |-> items]

Meta(id, name, createdAt, updatedAt) ==
    [id |-> id, name |-> name, createdAt |-> createdAt, updatedAt |-> updatedAt]

\* The storage as one value, so that the helpers compose as the code calls them.
\* clk: the time the clock showed when it was last read; full: localStorage.setItem
\* throws (quota exceeded); thrown: an exception has left the running operation,
\* whose remaining statements are not executed; writes: the keys the running
\* operation has written or removed, in order; crashAt: the number of writes after
\* which the running operation is interrupted (the page is closed), NoCrash when it
\* runs to its end.
NoCrash == 0

Store == [legacy |-> legacy, index |-> index, cur |-> cur, docs |-> docs,
          opsq |-> opsq, nextId |-> nextId, migRuns |-> migRuns, clk |-> clock,
          full |-> FALSE, thrown |-> FALSE, writes |-> <<>>, crashAt |-> NoCrash]

Null == <<>>
Some(x) == <<x>>

(***************************************************************************)
(* storage.ts                                                              *)
(***************************************************************************)
\* nowIso() / now(): one read of the clock.  It shows the time of the read before
\* it or a later time (up to MaxClock); the result is the storage with the clock
\* at the time read.
NowIso(S) == IF S.thrown THEN {S} ELSE {[S EXCEPT !.clk = t] : t \in S.clk..MaxClock}

\* v || nowIso(), v ?? nowIso(): the clock is read only when v is missing
OrNow(S, v) ==
    IF v # NoTime THEN {[S |-> S, t |-> v]} ELSE {[S |-> T, t |-> T.clk] : T \in NowIso(S)}

\* readIndex: the persisted index, [] when the key is absent.
ReadIndex(S) == IF S.index.present THEN S.index.metas ELSE <<>>

\* write(key, value): try { setItem } catch { ignored }; Put is the new storage
\* A write of key has been done: it is recorded, and the operation stops there
\* when this is where it is interrupted.
Logged(T, key) ==
    LET U == [T EXCEPT !.writes = Append(@, key)]
    IN IF Len(U.writes) = U.crashAt THEN [U EXCEPT !.thrown = TRUE] ELSE U

Write(S, key, Put) == IF S.thrown \/ S.full THEN S ELSE Logged(Put, key)

\* localStorage.removeItem(key)
Remove(S, key, Gone) == IF S.thrown THEN S ELSE Logged(Gone, key)

WriteIndex(S, metas) == Write(S, "index", [S EXCEPT !.index = IndexOf(metas)])

GetCurrentListId(S) == S.cur

\* setCurrentListId: localStorage.setItem outside of any try, its exception leaves
\* the caller
SetCurrentListId(S, id) ==
    IF S.thrown THEN S
    ELSE IF S.full THEN [S EXCEPT !.thrown = TRUE]
    ELSE Logged([S EXCEPT !.cur = id], "cur")

ClearCurrentListId(S) == Remove(S, "cur", [S EXCEPT !.cur = NoId])

\* write(STORAGE_KEY, snap)
WriteLegacy(S, snap) == Write(S, "legacy", [S EXCEPT !.legacy = LegacyOk(snap)])

RemoveLegacy(S) == Remove(S, "legacy", [S EXCEPT !.legacy = LegacyAbsent])

\* uuid(): a fresh id
Uuid(S) == S.nextId

TakeUuid(S) == IF S.thrown THEN S ELSE [S EXCEPT !.nextId = @ + 1]

\* Sequence helpers for the array methods the code uses.
SeqFilter(s, Keep(_)) == SelectSeq(s, Keep)

HasId(s, id) == \E i \in 1..Len(s) : s[i].id = id

\* Array.prototype.find(m => m.id === id), as Null or Some(m)
FindById(s, id) ==
    IF HasId(s, id)
    THEN Some(s[CHOOSE i \in 1..Len(s) : s[i].id = id /\ \A j \in 1..(i - 1) : s[j].id # id])
    ELSE Null

Perms(n) == {f \in [1..n -> 1..n] : \A i, j \in 1..n : i # j => f[i] # f[j]}

IsSortedDesc(s) == \A i \in 1..(Len(s) - 1) : s[i].updatedAt >= s[i + 1].updatedAt

\* index.sort((a, b) => (a.updatedAt < b.updatedAt ? 1 : -1)): the comparator never
\* returns 0, so the order of entries with equal updatedAt is left to the engine's
\* sort; every descending arrangement is a possible result.
SortByUpdatedDesc(s) ==
    {t \in {[i \in 1..Len(s) |-> s[f[i]]] : f \in Perms(Len(s))} : IsSortedDesc(t)}

(***************************************************************************)
(* listDocs.ts                                                             *)
(***************************************************************************)
\* readListDoc: Null when the key is absent
ReadListDoc(S, id) == IF id \in DOMAIN S.docs THEN Some(S.docs[id]) ELSE Null

PutDoc(d, snap) == [i \in DOMAIN d \cup {snap.id} |-> IF i = snap.id THEN snap ELSE d[i]]

DropDoc(d, id) == [i \in DOMAIN d \ {id} |-> d[i]]

\* localStorage.removeItem(LIST_DOC_KEY(id))
RemoveListDoc(S, id) == Remove(S, "doc", [S EXCEPT !.docs = DropDoc(@, id)])

\* The meta writeListDoc derives from the snapshot; now is what the clock shows
\* when the snapshot has no updatedAt.
DocMeta(snap, now) ==
    Meta(snap.id, FallbackName(snap.name), snap.createdAt,
         IF snap.updatedAt # NoTime THEN snap.updatedAt ELSE now)

\* writeListDoc: write the document, mirror the legacy slot when it is the current
\* list, replace or unshift the index entry, sort the index and persist it.
WriteListDoc(S, snap) ==
    LET S1 == Write(S, "doc", [S EXCEPT !.docs = PutDoc(@, snap)])
        S2 == IF GetCurrentListId(S1) = snap.id THEN WriteLegacy(S1, snap) ELSE S1
        idx == ReadIndex(S2)
    IN UNION {
         LET meta == DocMeta(snap, u.t)
             placed == IF HasId(idx, snap.id)
                       THEN LET k == CHOOSE i \in 1..Len(idx) :
                                         /\ idx[i].id = snap.id
                                         /\ \A j \in 1..(i - 1) : idx[j].id # snap.id
                            IN [idx EXCEPT ![k] = meta]
                       ELSE <<meta>> \o idx
         IN {WriteIndex(u.S, sorted) : sorted \in SortByUpdatedDesc(placed)}
         : u \in OrNow(S2, snap.updatedAt)}

\* removeListById (storage.ts): remove the document, filter the index, repair the
\* selection from the filtered index; the legacy slot is not touched and
\* migrateIfNeeded is not called.  Returns the current id after the call.
RemoveListById(S, listId) ==
    LET Other(m) == m.id # listId
        nextIndex == SeqFilter(ReadIndex(S), Other)
        S1 == WriteIndex(RemoveListDoc(S, listId), nextIndex)
        current == GetCurrentListId(S1)
    IN IF current = listId
       THEN IF Len(nextIndex) > 0
            THEN [S |-> SetCurrentListId(S1, nextIndex[1].id), ret |-> Some(nextIndex[1].id)]
            ELSE [S |-> ClearCurrentListId(S1), ret |-> Null]
       ELSE [S |-> S1, ret |-> IF current = NoId THEN Null ELSE Some(current)]

(***************************************************************************)
(* migration.ts                                                            *)
(***************************************************************************)
\* if ((hasIndex && hasCurrentId) || !legacy) return;
MigrationNeeded(S) ==
    ~((S.index.present /\ S.cur # NoId) \/ S.legacy.st = "absent")

\* JSON.parse(legacy), or { id, createdAt: nowIso(), items: [] } when it throws
Parsed(S, id) ==
    IF S.legacy.st = "ok" THEN {[S |-> S, doc |-> S.legacy.doc]}
    ELSE {[S |-> T, doc |-> Snapshot(id, NoName, T.clk, NoTime, <<>>)] : T \in NowIso(S)}

\* Variant of Normalized: createdAt is taken anew instead of from the legacy document.
Normalized_NewCreatedAt(S, id) ==
    UNION {UNION {
      {[S |-> u.S, doc |-> Snapshot(id, FallbackName(p.doc.name), c.t, u.t, p.doc.items)] :
          u \in OrNow(c.S, p.doc.updatedAt)}
      : c \in OrNow(p.S, NoTime)} : p \in Parsed(S, id)}

\* The snapshot the migration writes: the parsed legacy document, or an empty list
\* when JSON.parse throws, with the name, createdAt and updatedAt defaults, each
\* default time a read of the clock.
Normalized(S, id) ==
    UNION {UNION {
      {[S |-> u.S, doc |-> Snapshot(id, FallbackName(p.doc.name), c.t, u.t, p.doc.items)] :
          u \in OrNow(c.S, p.doc.updatedAt)}
      : c \in OrNow(p.S, p.doc.createdAt)} : p \in Parsed(S, id)}

\* The body is entered: uuid() is called, and the run counts. Nothing of it
\* happens once an exception has left the operation.
Entered(S) == IF S.thrown THEN S ELSE [TakeUuid(S) EXCEPT !.migRuns = @ + 1]

\* Variant of MigrateBody: the new list is not selected (no setCurrentListId).
MigrateBody_NoSelect(S) ==
    LET id == Uuid(S)
    IN UNION {
         LET norm == n.doc
             meta == Meta(id, norm.name, norm.createdAt, norm.updatedAt)
         IN {WriteLegacy(WriteIndex(S1, <<meta>>), norm) : S1 \in WriteListDoc(n.S, norm)}
         : n \in Normalized(Entered(S), id)}

\* The body of migrateIfNeeded after the early return.
MigrateBody(S) ==
    LET id == Uuid(S)
    IN UNION {
         LET norm == n.doc
             meta == Meta(id, norm.name, norm.createdAt, norm.updatedAt)
         IN {WriteLegacy(SetCurrentListId(WriteIndex(S1, <<meta>>), id), norm) :
                S1 \in WriteListDoc(n.S, norm)}
         : n \in Normalized(Entered(S), id)}

MigrateIfNeeded(S) ==
    IF ~S.thrown /\ MigrationNeeded(S) THEN MigrateBody(S) ELSE {S}

(***************************************************************************)
(* opsQueue.ts                                                             *)
(***************************************************************************)
\* loadOps: the persisted queue ([] when absent)
LoadOps(S) == S.opsq

SaveOps(S, ops) == Write(S, "ops", [S EXCEPT !.opsq = ops])

\* Variant of Queue: the op is put in front of the queue (unshift for push).
Queue_Unshift(S, op) == SaveOps(S, <<op>> \o LoadOps(S))

\* queue(op): load, push, save
Queue(S, op) == SaveOps(S, Append(LoadOps(S), op))

(***************************************************************************)
(* api.ts: helpers                                                         *)
(***************************************************************************)
\* safeMeta(id, name, updatedAt, createdAt): createdAt and name fall back to the
\* index entry already stored for id, createdAt and updatedAt to a read of the
\* clock each.
SafeMeta(S, id, name, updatedAt, createdAt) ==
    LET prev == FindById(ReadIndex(S), id)
        given == IF createdAt # NoTime THEN createdAt
                 ELSE IF prev # Null THEN prev[1].createdAt
                 ELSE NoTime
        nm == IF name # NoName THEN name
              ELSE IF prev # Null THEN prev[1].name
              ELSE NoName
    IN UNION {
         {[S |-> u.S, meta |-> Meta(id, FallbackName(nm), c.t, u.t)] :
             u \in OrNow(c.S, updatedAt)}
         : c \in OrNow(S, given)}

\* toMeta(s)
ToMeta(S, snap) == SafeMeta(S, snap.id, snap.name, snap.updatedAt, snap.createdAt)

\* upsertMeta: replace the entry in place, or append it; the index is not re-sorted
\* Variant of UpsertMeta: every entry of the index is stamped with the time of
\* the entry that is put.
UpsertMeta_StampsAll(S, meta) ==
    LET idx == ReadIndex(S)
        next == IF HasId(idx, meta.id)
                THEN [i \in 1..Len(idx) |->
                         IF idx[i].id = meta.id THEN meta
                         ELSE [idx[i] EXCEPT !.updatedAt = meta.updatedAt]]
                ELSE Append(idx, meta)
    IN WriteIndex(S, next)

UpsertMeta(S, meta) ==
    LET idx == ReadIndex(S)
        next == IF HasId(idx, meta.id)
                THEN [i \in 1..Len(idx) |-> IF idx[i].id = meta.id THEN meta ELSE idx[i]]
                ELSE Append(idx, meta)
    IN WriteIndex(S, next)

\* removeMeta: filter the entry out and persist
RemoveMeta(S, id) ==
    LET Other(m) == m.id # id
    IN WriteIndex(S, SeqFilter(ReadIndex(S), Other))

Out(S, ret) == [S |-> S, ret |-> ret]

(***************************************************************************)
(* api.ts: multi-list management                                           *)
(***************************************************************************)
CreateAndSelectList(S, name) ==
    UNION {UNION {
      LET id == Uuid(S0)
          snap == Snapshot(id, FallbackName(name), T.clk, T.clk, <<>>)
      IN UNION {
           {Out(WriteLegacy(SetCurrentListId(UpsertMeta(m.S, m.meta), id), snap), Some(snap)) :
               m \in ToMeta(S1, snap)}
           : S1 \in WriteListDoc(T, snap)}
      : T \in NowIso(TakeUuid(S0))} : S0 \in MigrateIfNeeded(S)}

\* getAllLists: a stable sort of the index by Date.parse(updatedAt), newest first
\* Variant of StableSortDesc: the entries in the order of the index.
StableSortDesc_AsStored(s) == s

StableSortDesc(s) ==
    CHOOSE t \in SortByUpdatedDesc(s) :
        \A i, j \in 1..Len(s) :
            (i < j /\ s[i].updatedAt = s[j].updatedAt) =>
                \E a, b \in 1..Len(t) : a < b /\ t[a] = s[i] /\ t[b] = s[j]

GetAllLists(S) ==
    {Out(S0, StableSortDesc(ReadIndex(S0))) : S0 \in MigrateIfNeeded(S)}

\* upsertMeta(safeMeta(id, doc.name, nowIso())): the clock is read for the
\* argument, then safeMeta is called.
SelectList(S, id) ==
    UNION {
      LET doc == ReadListDoc(S0, id)
      IN IF doc = Null THEN {Out(S0, Null)}
         ELSE UNION {
                {Out(UpsertMeta(m.S, m.meta), doc) :
                    m \in SafeMeta(T, id, doc[1].name, T.clk, NoTime)}
                : T \in NowIso(WriteLegacy(SetCurrentListId(S0, id), doc[1]))}
      : S0 \in MigrateIfNeeded(S)}

\* Variant of Persist: the legacy slot is mirrored before the document is written.
Persist_LegacyFirst(S, updated) ==
    UNION {
      {UpsertMeta(m.S, m.meta) :
          m \in SafeMeta(S1, updated.id, updated.name, updated.updatedAt, NoTime)}
      : S1 \in WriteListDoc(WriteLegacy(S, updated), updated)}

\* writeListDoc(updated); upsertMeta(safeMeta(id, name, updatedAt)); write(STORAGE_KEY, updated)
Persist(S, updated) ==
    UNION {
      {WriteLegacy(UpsertMeta(m.S, m.meta), updated) :
          m \in SafeMeta(S1, updated.id, updated.name, updated.updatedAt, NoTime)}
      : S1 \in WriteListDoc(S, updated)}

RenameCurrentList(S, newName) ==
    UNION {
      LET id == GetCurrentListId(S0)
          snap == ReadListDoc(S0, id)
      IN IF id = NoId \/ snap = Null THEN {Out(S0, Null)}
         ELSE UNION {
                LET updated == [snap[1] EXCEPT !.name = FallbackName(newName),
                                               !.updatedAt = T.clk]
                IN {Out(S2, Some(updated)) : S2 \in Persist(T, updated)}
                : T \in NowIso(S0)}
      : S0 \in MigrateIfNeeded(S)}

\* Variant of DeleteListById: the selection is cleared, not repaired (as the
\* earlier revision of the function did).
DeleteListById_NoRepair(S, id) ==
    {LET S1 == RemoveMeta(RemoveListDoc(S0, id), id)
     IN Out(IF GetCurrentListId(S1) = id THEN ClearCurrentListId(S1) ELSE S1, Null)
     : S0 \in MigrateIfNeeded(S)}

\* Variant of DeleteListById: the selection is left as it is.
DeleteListById_KeepSelection(S, id) ==
    {Out(RemoveMeta(RemoveListDoc(S0, id), id), Null) : S0 \in MigrateIfNeeded(S)}

\* The selection is repaired from the array removeMeta returns, not from the index
\* as it is stored after the write.
DeleteListById(S, id) ==
    {LET Other(m) == m.id # id
         S1 == RemoveMeta(RemoveListDoc(S0, id), id)
         nextIndex == SeqFilter(ReadIndex(RemoveListDoc(S0, id)), Other)
     IN IF GetCurrentListId(S1) = id
        THEN IF Len(nextIndex) > 0
             THEN LET fallback == nextIndex[1].id
                      S2 == SetCurrentListId(S1, fallback)
                      doc == ReadListDoc(S2, fallback)
                  IN Out(IF doc # Null THEN WriteLegacy(S2, doc[1]) ELSE S2, Null)
             ELSE Out(RemoveLegacy(ClearCurrentListId(S1)), Null)
        ELSE Out(S1, Null)
     : S0 \in MigrateIfNeeded(S)}

(***************************************************************************)
(* api.ts: legacy single-list API                                          *)
(***************************************************************************)
\* Variant of CreateNewList: the new list is not selected.
CreateNewList_NoSelect(S) ==
    UNION {UNION {
      LET id == Uuid(S0)
          snap == Snapshot(id, DefaultName, T.clk, T.clk, <<>>)
      IN UNION {
           {Out(UpsertMeta(m.S, m.meta), Some(snap)) : m \in ToMeta(S1, snap)}
           : S1 \in WriteListDoc(WriteLegacy(T, snap), snap)}
      : T \in NowIso(TakeUuid(S0))} : S0 \in MigrateIfNeeded(S)}

CreateNewList(S) ==
    UNION {
      IF GetCurrentListId(S0) # NoId
      THEN CreateAndSelectList(S0, DefaultName)
      ELSE UNION {
             LET id == Uuid(S0)
                 snap == Snapshot(id, DefaultName, T.clk, T.clk, <<>>)
             IN UNION {
                  {Out(SetCurrentListId(UpsertMeta(m.S, m.meta), id), Some(snap)) :
                      m \in ToMeta(S1, snap)}
                  : S1 \in WriteListDoc(WriteLegacy(T, snap), snap)}
             : T \in NowIso(TakeUuid(S0))}
      : S0 \in MigrateIfNeeded(S)}

\* loadSnapshot: the current list's document, else the legacy slot
LoadSnapshot(S) ==
    {LET currentId == GetCurrentListId(S0)
         doc == IF currentId # NoId THEN ReadListDoc(S0, currentId) ELSE Null
     IN IF doc # Null THEN Out(S0, doc)
        ELSE IF S0.legacy.st = "ok" THEN Out(S0, Some(S0.legacy.doc))
        ELSE Out(S0, Null)
     : S0 \in MigrateIfNeeded(S)}

\* loadSnapshot() ?? createNewList()
\* Once an exception has left the operation the steps composed after it change
\* nothing: the writes, uuid(), the clock reads and the migration are all skipped
\* on a thrown state.
SnapOrNew(S) ==
    UNION {IF o.ret # Null THEN {o} ELSE CreateNewList(o.S) : o \in LoadSnapshot(S)}

ReplaceItems(S, items) ==
    UNION {UNION {UNION {
      LET updated == [b.ret[1] EXCEPT !.items = items, !.updatedAt = T.clk]
      IN {Out(S2, Some(updated)) : S2 \in Persist(T, updated)}
      : T \in NowIso(b.S)} : b \in SnapOrNew(S0)} : S0 \in MigrateIfNeeded(S)}

\* if (!isOnline()) queue({ ..., ts: now(), ... }): the clock is read for ts when
\* the op is queued.
\* Variant of QueueIfOffline: the op is queued whether online or not.
QueueIfOffline_Always(S, online, op) ==
    {Queue(T, [op EXCEPT !.ts = T.clk]) : T \in NowIso(S)}

QueueIfOffline(S, online, op) ==
    IF online THEN {S} ELSE {Queue(T, [op EXCEPT !.ts = T.clk]) : T \in NowIso(S)}

\* The tail of an item mutation: the update is persisted and the op queued.
Mutated(S, online, updated, op) ==
    UNION {{Out(S3, Some(updated)) : S3 \in QueueIfOffline(S2, online, op)}
           : S2 \in Persist(S, updated)}

AddItem(S, newItem, online) ==
    UNION {UNION {UNION {
      LET snap == b.ret[1]
          updated == [snap EXCEPT !.items = Append(@, newItem), !.updatedAt = T.clk]
      IN Mutated(T, online, updated,
                 [type |-> "add", item |-> newItem, ts |-> NoTime, listId |-> snap.id])
      : T \in NowIso(b.S)} : b \in SnapOrNew(S0)} : S0 \in MigrateIfNeeded(S)}

\* { ...it, ...patch }
Spread(it, patch) ==
    [f \in DOMAIN it \cup DOMAIN patch |-> IF f \in DOMAIN patch THEN patch[f] ELSE it[f]]

UpdateItem(S, id, patch, online) ==
    UNION {UNION {UNION {
      LET snap == b.ret[1]
          items == [i \in 1..Len(snap.items) |->
                      IF snap.items[i].id = id THEN Spread(snap.items[i], patch)
                      ELSE snap.items[i]]
          updated == [snap EXCEPT !.items = items, !.updatedAt = T.clk]
      IN Mutated(T, online, updated,
                 [type |-> "update", id |-> id, patch |-> patch, ts |-> NoTime,
                  listId |-> snap.id])
      : T \in NowIso(b.S)} : b \in SnapOrNew(S0)} : S0 \in MigrateIfNeeded(S)}

ToggleItem(S, id, online) ==
    UNION {UNION {UNION {
      LET snap == b.ret[1]
          items == [i \in 1..Len(snap.items) |->
                      IF snap.items[i].id = id
                      THEN [snap.items[i] EXCEPT !.done = ~@]
                      ELSE snap.items[i]]
          updated == [snap EXCEPT !.items = items, !.updatedAt = T.clk]
      IN Mutated(T, online, updated,
                 [type |-> "toggle", id |-> id, ts |-> NoTime, listId |-> snap.id])
      : T \in NowIso(b.S)} : b \in SnapOrNew(S0)} : S0 \in MigrateIfNeeded(S)}

DeleteItem(S, id, online) ==
    UNION {UNION {UNION {
      LET snap == b.ret[1]
          Keep(it) == it.id # id
          updated == [snap EXCEPT !.items = SeqFilter(@, Keep), !.updatedAt = T.clk]
      IN Mutated(T, online, updated,
                 [type |-> "delete", id |-> id, ts |-> NoTime, listId |-> snap.id])
      : T \in NowIso(b.S)} : b \in SnapOrNew(S0)} : S0 \in MigrateIfNeeded(S)}

\* Variant of SaveSnapshot: the items are not kept.
SaveSnapshot_NoItems(S, snap) ==
    UNION {UNION {
      LET updated == [snap EXCEPT !.updatedAt = T.clk, !.items = <<>>]
      IN {Out(S2, Null) : S2 \in Persist(T, updated)}
      : T \in NowIso(S0)} : S0 \in MigrateIfNeeded(S)}

SaveSnapshot(S, snap) ==
    UNION {UNION {
      LET updated == [snap EXCEPT !.updatedAt = T.clk]
      IN {Out(S2, Null) : S2 \in Persist(T, updated)}
      : T \in NowIso(S0)} : S0 \in MigrateIfNeeded(S)}

(***************************************************************************)
(* api.ts: name utilities / open by name                                   *)
(***************************************************************************)
\* m.name ?? ""
NameOrEmpty(n) == IF n = NoName THEN "" ELSE n

\* readIndex().some(m => normName(m.name ?? "") === normName(name))
\* Variant of NameTaken: the names are compared as they are written.
NameTaken_Exact(S, name) ==
    \E i \in 1..Len(ReadIndex(S)) : NameOrEmpty(ReadIndex(S)[i].name) = name

NameTaken(S, name) ==
    \E i \in 1..Len(ReadIndex(S)) : NormName(NameOrEmpty(ReadIndex(S)[i].name)) = NormName(name)

\* nameExists: reads the index as it is stored; there is no call of migrateIfNeeded
NameExists(S, name) == {Out(S, Some(NameTaken(S, name)))}

\* getListMetaByName: the first index entry with the name, or Null
GetListMetaByName(S, name) ==
    LET idx == ReadIndex(S)
        Hit(i) == NormName(NameOrEmpty(idx[i].name)) = NormName(name)
    IN IF \E i \in 1..Len(idx) : Hit(i)
       THEN Some(idx[CHOOSE i \in 1..Len(idx) : Hit(i) /\ \A j \in 1..(i - 1) : ~Hit(j)])
       ELSE Null

Ok(snap) == [ok |-> TRUE, list |-> snap]

Fail(reason) == [ok |-> FALSE, reason |-> reason]

CreateAndSelectListUnique(S, name) ==
    UNION {
      LET trimmed == Trim(name)
      IN IF trimmed = "" THEN {Out(S0, Some(Fail("invalid")))}
         ELSE IF \E e \in NameExists(S0, trimmed) : e.ret[1]
              THEN {Out(S0, Some(Fail("duplicate")))}
              ELSE {Out(o.S, Some(Ok(o.ret[1]))) : o \in CreateAndSelectList(S0, trimmed)}
      : S0 \in MigrateIfNeeded(S)}

RenameCurrentListUnique(S, newName) ==
    UNION {
      LET id == GetCurrentListId(S0)
          snap == ReadListDoc(S0, id)
          candidate == Trim(newName)
          idx == ReadIndex(S0)
          takenByOther == \E i \in 1..Len(idx) :
                              /\ idx[i].id # id
                              /\ NormName(NameOrEmpty(idx[i].name)) = NormName(candidate)
      IN IF id = NoId \/ snap = Null THEN {Out(S0, Some(Fail("notfound")))}
         ELSE IF candidate = "" THEN {Out(S0, Some(Fail("invalid")))}
         ELSE IF takenByOther THEN {Out(S0, Some(Fail("duplicate")))}
         ELSE UNION {
                LET updated == [snap[1] EXCEPT !.name = FallbackName(candidate),
                                               !.updatedAt = T.clk]
                IN {Out(S2, Some(Ok(updated))) : S2 \in Persist(T, updated)}
                : T \in NowIso(S0)}
      : S0 \in MigrateIfNeeded(S)}

OpenExistingByName(S, name) ==
    UNION {
      LET meta == GetListMetaByName(S0, name)
      IN IF meta = Null THEN {Out(S0, Null)} ELSE SelectList(S0, meta[1].id)
      : S0 \in MigrateIfNeeded(S)}

\* resetStorage: the legacy slot, the queue, the index and the selection are
\* removed, then every per-list document (in the order of the keys of
\* localStorage, which the code does not choose), then the selection once more.
\* It does not call migrateIfNeeded.
RECURSIVE RemoveDocs(_, _)
RemoveDocs(S, ids) ==
    IF ids = {} THEN {S}
    ELSE UNION {RemoveDocs(RemoveListDoc(S, id), ids \ {id}) : id \in ids}

ResetStorage(S) ==
    LET S1 == RemoveLegacy(S)
        S2 == Remove(S1, "ops", [S1 EXCEPT !.opsq = <<>>])
        S3 == Remove(S2, "index", [S2 EXCEPT !.index = IndexAbsent])
        S4 == Remove(S3, "cur", [S3 EXCEPT !.cur = NoId])
    IN {Out(ClearCurrentListId(T), Null) : T \in RemoveDocs(S4, DOMAIN S4.docs)}

(***************************************************************************)
(* api.ts: flushPendingOps.  An invocation p runs to its first await in    *)
(* FlushStart, and from one await to the next (or to its end) in           *)
(* SenderResolve; SenderReject is the rejection of the awaited promise.    *)
(***************************************************************************)
Flushes == 1..MaxFlush

FlushIdle == [pc |-> "idle", ops |-> <<>>, i |-> 0, base |-> 0, calls |-> <<>>, acks |-> 0]

\* const ops = loadOps(); if (!ops.length) return; ... await sender(ops[0])
FlushStart(p) ==
    /\ fl[p].pc = "idle"
    /\ LET ops == LoadOps(Store)
       IN fl' = [fl EXCEPT ![p] =
                   IF Len(ops) = 0
                   THEN [@ EXCEPT !.pc = "done", !.base = sync.base]
                   ELSE [pc |-> "await", ops |-> ops, i |-> 1, base |-> sync.base,
                         calls |-> <<1>>, acks |-> 0]]
    /\ UNCHANGED <<storeVars, clock, origin, sync, last>>

\* The op numbers (in enqueue order, over the whole run) of the persisted queue.
QueuedNumbers == (sync.base + 1)..(sync.base + Len(opsq))

\* Variant of SenderResolve: the loop ends without saveOps([]).
SenderResolve_NoClear(p) ==
    /\ fl[p].pc = "await"
    /\ LET f == fl[p]
       IN /\ fl' = [fl EXCEPT ![p] =
                      IF f.i < Len(f.ops)
                      THEN [f EXCEPT !.i = f.i + 1, !.calls = Append(f.calls, f.i + 1),
                                     !.acks = f.acks + 1]
                      ELSE [f EXCEPT !.pc = "done", !.acks = f.acks + 1]]
          /\ sync' = [sync EXCEPT !.acked = @ \cup {f.base + f.i}]
    /\ UNCHANGED <<storeVars, clock, origin, last>>

\* The awaited sender(op) resolves: the loop calls sender on the next op, or ends
\* and saveOps([]) clears the persisted queue.
SenderResolve(p) ==
    /\ fl[p].pc = "await"
    /\ LET f == fl[p]
           acked == sync.acked \cup {f.base + f.i}
       IN IF f.i < Len(f.ops)
          THEN /\ fl' = [fl EXCEPT ![p] = [f EXCEPT !.i = f.i + 1,
                                                    !.calls = Append(f.calls, f.i + 1),
                                                    !.acks = f.acks + 1]]
               /\ sync' = [sync EXCEPT !.acked = acked]
               /\ UNCHANGED storeVars
          ELSE /\ fl' = [fl EXCEPT ![p] = [f EXCEPT !.pc = "done", !.acks = f.acks + 1]]
               /\ sync' = [sync EXCEPT !.base = sync.base + Len(opsq),
                                        !.acked = acked,
                                        !.dropped = @ \cup (QueuedNumbers \ acked)]
               /\ opsq' = SaveOps(Store, <<>>).opsq
               /\ UNCHANGED <<legacy, index, cur, docs, nextId, migRuns>>
    /\ UNCHANGED <<clock, origin, last>>

\* Variant of SenderReject: the queue is cleared on the way out (a finally block).
SenderReject_Clears(p) ==
    /\ fl[p].pc = "await"
    /\ fl' = [fl EXCEPT ![p].pc = "rejected"]
    /\ opsq' = <<>>
    /\ UNCHANGED <<legacy, index, cur, docs, nextId, migRuns, clock, origin, sync, last>>

\* The awaited sender(op) rejects: the rejection leaves flushPendingOps.
SenderReject(p) ==
    /\ fl[p].pc = "await"
    /\ fl' = [fl EXCEPT ![p].pc = "rejected"]
    /\ UNCHANGED <<storeVars, clock, origin, sync, last>>

(***************************************************************************)
(* The operations as actions.                                              *)
(***************************************************************************)
SetStore(S) ==
    /\ legacy' = S.legacy
    /\ index' = S.index
    /\ cur' = S.cur
    /\ docs' = S.docs
    /\ opsq' = S.opsq
    /\ nextId' = S.nextId
    /\ migRuns' = S.migRuns
    /\ clock' = S.clk

\* One call of a facade operation: one of its outcomes becomes the storage.
\* logged is the history entry of the pending op the call has to enqueue, if any.
Call(op, id, outs, logged) ==
    /\ \E o \in outs :
          /\ o.S.nextId <= MaxIds + 1
          /\ SetStore(o.S)
          /\ last' = [op |-> op, id |-> id, cur0 |-> cur, mig |-> o.S.migRuns > migRuns,
                       name |-> NoName, res |-> "none", writes |-> <<>>]
    /\ sync' = [sync EXCEPT !.log = @ \o logged]
    /\ UNCHANGED <<fl, origin>>

\* The verdict of a call that answers with a boolean, a tagged result or a
\* snapshot-or-null.
Verdict(op, ret) ==
    CASE op = "nameExists" -> IF ret[1] THEN "true" ELSE "false"
      [] op \in {"createAndSelectListUnique", "renameCurrentListUnique"} ->
            IF ret[1].ok THEN "ok" ELSE ret[1].reason
      [] OTHER -> IF ret = Null THEN "null" ELSE "snapshot"

\* One call of an operation that takes a name: the history keeps the name and the
\* verdict too.
CallNamed(op, name, outs) ==
    /\ \E o \in outs :
          /\ o.S.nextId <= MaxIds + 1
          /\ SetStore(o.S)
          /\ last' = [op |-> op, id |-> NoId, cur0 |-> cur, mig |-> o.S.migRuns > migRuns,
                       name |-> name, res |-> Verdict(op, o.ret), writes |-> <<>>]
    /\ UNCHANGED <<fl, origin, sync>>

\* Time passes between operations.
Tick ==
    /\ clock < MaxClock
    /\ clock' = clock + 1
    /\ UNCHANGED <<storeVars, fl, origin, sync, last>>

\* The ids a caller can hold: those uuid() has handed out, and the legacy list's.
KnownIds == 1..(nextId - 1) \cup {LegacyId}

Item(id, done) == [id |-> id, done |-> done]

DoCreateAndSelectList(name) ==
    Call("createAndSelectList", NoId, CreateAndSelectList(Store, name), <<>>)

DoCreateNewList == Call("createNewList", NoId, CreateNewList(Store), <<>>)

DoGetAllLists == Call("getAllLists", NoId, GetAllLists(Store), <<>>)

DoLoadSnapshot == Call("loadSnapshot", NoId, LoadSnapshot(Store), <<>>)

DoSelectList(id) == Call("selectList", id, SelectList(Store, id), <<>>)

DoRenameCurrentList(name) ==
    Call("renameCurrentList", NoId, RenameCurrentList(Store, name), <<>>)

DoDeleteListById(id) == Call("deleteListById", id, DeleteListById(Store, id), <<>>)

\* The item operations stay within MaxItems items and MaxQueue queued ops.
ItemCall(type, id, online, outs) ==
    /\ online \/ Len(sync.log) < MaxQueue
    /\ Call(type, id, {o \in outs : Len(o.ret[1].items) <= MaxItems},
            IF online THEN <<>> ELSE <<[type |-> type, id |-> id]>>)

DoAddItem(item, online) == ItemCall("add", item.id, online, AddItem(Store, item, online))

DoUpdateItem(id, patch, online) ==
    ItemCall("update", id, online, UpdateItem(Store, id, patch, online))

DoToggleItem(id, online) ==
    ItemCall("toggle", id, online, ToggleItem(Store, id, online))

DoDeleteItem(id, online) ==
    ItemCall("delete", id, online, DeleteItem(Store, id, online))

DoReplaceItems(items) == Call("replaceItems", NoId, ReplaceItems(Store, items), <<>>)

DoSaveSnapshot(snap) == Call("saveSnapshot", snap.id, SaveSnapshot(Store, snap), <<>>)

DoNameExists(name) == CallNamed("nameExists", name, NameExists(Store, name))

DoCreateAndSelectListUnique(name) ==
    CallNamed("createAndSelectListUnique", name, CreateAndSelectListUnique(Store, name))

DoRenameCurrentListUnique(name) ==
    CallNamed("renameCurrentListUnique", name, RenameCurrentListUnique(Store, name))

DoOpenExistingByName(name) ==
    CallNamed("openExistingByName", name, OpenExistingByName(Store, name))

DoMigrateIfNeeded ==
    Call("migrateIfNeeded", NoId, {Out(S, Null) : S \in MigrateIfNeeded(Store)}, <<>>)

\* resetStorage(): the storage is fresh again, so the history starts anew from
\* absent legacy data; the ops it removes from the queue were removed on purpose
\* (they are not counted as dropped by a flush), the numbering of the queued ops
\* goes on after them.
DoResetStorage ==
    /\ \E o \in ResetStorage(Store) :
          /\ SetStore(o.S)
          /\ last' = [op |-> "resetStorage", id |-> NoId, cur0 |-> cur, mig |-> FALSE,
                       name |-> NoName, res |-> "none", writes |-> <<>>]
    /\ origin' = LegacyAbsent
    /\ sync' = [sync EXCEPT !.base = @ + Len(opsq)]
    /\ UNCHANGED fl

(***************************************************************************)
(* Spec: the facade on fresh or legacy-only storage, online.               *)
(***************************************************************************)
\* The legacy document an older version of the app has left: no name, no updatedAt.
LegacyDocs == {Snapshot(LegacyId, NoName, LegacyTime, NoTime, <<Item(1, FALSE)>>)}

InitLegacy == {LegacyAbsent, LegacyCorrupt} \cup {LegacyOk(d) : d \in LegacyDocs}

SyncInit == [base |-> 0, acked |-> {}, dropped |-> {}, log |-> <<>>]

LastInit == [op |-> "none", id |-> NoId, cur0 |-> NoId, mig |-> FALSE,
             name |-> NoName, res |-> "none", writes |-> <<>>]

InitFrom(legacies) ==
    /\ legacy \in legacies
    /\ index = IndexAbsent
    /\ cur = NoId
    /\ docs = NoDocs
    /\ opsq = <<>>
    /\ nextId = 1
    /\ clock = StartClock
    /\ fl = [p \in Flushes |-> FlushIdle]
    /\ migRuns = 0
    /\ origin = legacy
    /\ sync = SyncInit
    /\ last = LastInit

Init == InitFrom(InitLegacy)

NamesIn == {"A", " a "}

\* The snapshots a caller passes to saveSnapshot: a document as it is stored, or
\* the snapshot of a list that has been deleted since.
SaveInputs ==
    {Snapshot(id, name, StartClock, NoTime, <<>>) :
        id \in 1..(nextId - 1) \ DOMAIN docs, name \in {"A"}}
    \cup {docs[id] : id \in DOMAIN docs}

Next ==
    \/ Tick
    \/ \E name \in NamesIn : DoCreateAndSelectList(name)
    \/ DoCreateNewList
    \/ DoGetAllLists
    \/ DoLoadSnapshot
    \/ \E id \in KnownIds : DoSelectList(id)
    \/ \E name \in NamesIn : DoRenameCurrentList(name)
    \/ \E id \in KnownIds : DoDeleteListById(id)
    \/ DoAddItem(Item(1, FALSE), TRUE)
    \/ \E snap \in SaveInputs : DoSaveSnapshot(snap)
    \/ DoResetStorage

Spec == Init /\ [][Next]_vars

(***************************************************************************)
(* Claims on Spec.                                                         *)
(***************************************************************************)
EntriesOf(id) == {i \in 1..Len(ReadIndex(Store)) : ReadIndex(Store)[i].id = id}

\* C1: every per-list document has exactly one index entry with its id, and that
\* entry's name, createdAt and updatedAt equal the document's.
C1_IndexMirrorsDocs ==
    \A id \in DOMAIN docs :
        /\ Cardinality(EntriesOf(id)) = 1
        /\ \A i \in EntriesOf(id) :
              /\ index.metas[i].name = docs[id].name
              /\ index.metas[i].createdAt = docs[id].createdAt
              /\ index.metas[i].updatedAt = docs[id].updatedAt

\* The ids of the index entries.
IndexIds(S) == {ReadIndex(S)[i].id : i \in 1..Len(ReadIndex(S))}

\* The lists that exist: a document and an index entry.
Existing == {id \in DOMAIN docs : HasId(ReadIndex(Store), id)}

\* The selection deleteListById found when it had run migrateIfNeeded.
SelectionAtDelete == IF last.mig THEN nextId - 1 ELSE last.cur0

\* C2 as stated, the current selection being the one held when deleteListById is
\* called: deleteListById of the current list selects another list that exists,
\* or clears the selection when none remains; deleteListById of another list
\* leaves the selection as it is.
C2_SelectionAtCall ==
    last.op = "deleteListById" =>
        IF last.cur0 = last.id
        THEN IF Existing # {} THEN cur \in Existing ELSE cur = NoId
        ELSE cur = last.cur0

\* C2 as amended, the current selection being the one deleteListById finds after
\* the migrateIfNeeded it runs first: deleteListById of that list selects another
\* list that exists, or clears the selection when none remains; deleteListById
\* of another list leaves that selection as it is.
C2_SelectionRepair ==
    last.op = "deleteListById" =>
        IF SelectionAtDelete = last.id
        THEN IF Existing # {} THEN cur \in Existing ELSE cur = NoId
        ELSE cur = SelectionAtDelete

C2_Witness ==
    /\ last.op = "deleteListById"
    /\ last.cur0 = last.id
    /\ ~last.mig
    /\ cur # NoId
    /\ cur \in Existing

\* C9: the body of migrateIfNeeded runs once from legacy-only storage, on the first
\* operation, and never from fresh storage: it runs in no other step than the
\* first operation on legacy-only storage, and it has run once after that step.
C9_MigratesOnce ==
    /\ [][migRuns' # migRuns => (origin.st # "absent" /\ last.op = "none")]_vars
    /\ []((origin.st # "absent" /\ last.op # "none") => migRuns = 1)

IsPrefix(s, t) == Len(s) <= Len(t) /\ \A i \in 1..Len(s) : s[i] = t[i]

\* The migrated list as C10 describes it: one index entry named "My list" with the
\* legacy createdAt, selected, and loadSnapshot() returning the legacy items.
MigratedList ==
    /\ index.present
    /\ Len(index.metas) = 1
    /\ index.metas[1].name = DefaultName
    /\ origin.st = "ok" => index.metas[1].createdAt = origin.doc.createdAt
    /\ cur = index.metas[1].id
    /\ \A o \in LoadSnapshot(Store) :
          /\ o.ret # Null
          /\ o.ret[1].items = (IF origin.st = "ok" THEN origin.doc.items ELSE <<>>)

\* The first operation on legacy-only storage has just run.
FirstOpOnLegacy == origin.st # "absent" /\ last.mig /\ migRuns = 1

\* The operations that change no list themselves when they are the first call.
ReadOps == {"loadSnapshot", "getAllLists", "selectList", "deleteListById"}

\* C10 as stated: after any one public operation on legacy-only storage the index
\* holds exactly the migrated list, it is selected and loadSnapshot() returns the
\* legacy items.
C10_AnyOperation == FirstOpOnLegacy => MigratedList

\* C10 as amended: the same after a first operation that changes no list itself.
C10_LegacyPreserved == (FirstOpOnLegacy /\ last.op \in ReadOps) => MigratedList

C10_Witness ==
    /\ FirstOpOnLegacy
    /\ origin.st = "ok"
    /\ last.op = "loadSnapshot"
    /\ docs[cur].items = origin.doc.items
    /\ Len(origin.doc.items) > 0

\* C11: when the current-selection slot holds an id, the index has an entry with
\* that id and the per-list document of that id exists.
C11_SelectionValid ==
    cur # NoId => (HasId(ReadIndex(Store), cur) /\ cur \in DOMAIN docs)

C11_Witness ==
    /\ last.op = "deleteListById"
    /\ last.cur0 = last.id
    /\ ~last.mig
    /\ Cardinality(DOMAIN docs) >= 1
    /\ cur \in DOMAIN docs
    /\ HasId(ReadIndex(Store), cur)
    /\ migRuns = 0

\* C15: where loadSnapshot() returns s, saveSnapshot(s) followed by loadSnapshot()
\* returns a snapshot with the id, name, createdAt and items of s, and the current
\* selection is the same as before the save.
C15_RoundTrip ==
    \A o1 \in LoadSnapshot(Store) :
        o1.ret # Null =>
            \A o2 \in SaveSnapshot(o1.S, o1.ret[1]) :
                \A o3 \in LoadSnapshot(o2.S) :
                    /\ o3.ret # Null
                    /\ o3.ret[1].id = o1.ret[1].id
                    /\ o3.ret[1].name = o1.ret[1].name
                    /\ o3.ret[1].createdAt = o1.ret[1].createdAt
                    /\ o3.ret[1].items = o1.ret[1].items
                        /\ o3.S.cur = o1.S.cur

\* A list with an item has been loaded and saved back at a later time.
C15_Witness ==
    /\ last.op = "saveSnapshot"
    /\ last.id = cur
    /\ last.cur0 = cur
    /\ cur \in DOMAIN docs
    /\ Len(docs[cur].items) > 0
    /\ docs[cur].updatedAt > docs[cur].createdAt
    /\ \A o \in LoadSnapshot(Store) : o.ret = Some(docs[cur])

\* What a caller sees of an empty store: getAllLists() is empty and loadSnapshot()
\* is null.
SeenEmpty ==
    /\ \A o \in GetAllLists(Store) : o.ret = <<>>
    /\ \A o \in LoadSnapshot(Store) : o.ret = Null

ReadOnlyOps == {"getAllLists", "loadSnapshot"}

\* C17: deleteListById of the current list, when it is the only list, leaves a
\* store in which getAllLists() is empty and loadSnapshot() is null, and reading
\* such a store leaves it so.
C17_DeleteLastEmpties ==
    /\ [][(last'.op = "deleteListById" /\ last' # last /\ cur = last'.id
              /\ cur \in DOMAIN docs /\ IndexIds(Store) = {cur}) => SeenEmpty']_vars
    /\ [][(SeenEmpty /\ last'.op \in ReadOnlyOps) => (SeenEmpty' /\ storeVars' = storeVars)]_vars

\* The migrated legacy list was deleted as the last list and the store was read.
C17_Witness ==
    /\ last.op = "loadSnapshot"
    /\ origin.st = "ok"
    /\ migRuns = 1
    /\ nextId = 2
    /\ docs = NoDocs
    /\ index = IndexOf(<<>>)
    /\ cur = NoId
    /\ legacy = LegacyAbsent

\* C21: saveSnapshot of a list that is not the current one leaves the legacy slot
\* as it is; saveSnapshot of the current list makes the legacy slot that snapshot.
C21_MirrorsCurrentOnly ==
    [][(last'.op = "saveSnapshot" /\ last' # last /\ ~MigrationNeeded(Store)) =>
          IF last'.id = cur
          THEN legacy' = LegacyOk(docs'[cur])
          ELSE legacy' = legacy]_vars

\* C22: the persisted index is in non-increasing order of updatedAt.
C22_IndexSorted ==
    \A i, j \in 1..Len(ReadIndex(Store)) :
        i < j => ReadIndex(Store)[i].updatedAt >= ReadIndex(Store)[j].updatedAt

KeepingOps ==
    {"selectList", "renameCurrentList", "renameCurrentListUnique"} \cup {"add", "update", "toggle", "delete", "replaceItems"}

\* The creation times the index holds for a list.
CreatedIn(S, id) ==
    {ReadIndex(S)[i].createdAt : i \in {j \in 1..Len(ReadIndex(S)) : ReadIndex(S)[j].id = id}}

\* C25: createdAt is immutable: a call of selectList, renameCurrentList,
\* renameCurrentListUnique, an item mutation or replaceItems leaves the createdAt
\* of every list that exists before and after it as it was, in the list's
\* document and in its index entry.
C25_CreatedAtKept ==
    [][(last'.op \in KeepingOps /\ (last' # last \/ storeVars' # storeVars)) =>
          \A id \in DOMAIN docs \cap DOMAIN docs' :
              /\ docs'[id].createdAt = docs[id].createdAt
              /\ (CreatedIn(Store, id) # {} /\ CreatedIn(Store', id) # {}) =>
                     CreatedIn(Store', id) = CreatedIn(Store, id)]_vars

\* C28: in every state reachable from fresh or legacy-only storage by the
\* operations of the facade, the ids of the persisted index are pairwise
\* distinct and the set of index ids equals the set of ids of stored documents.
C28_IndexMatchesDocs ==
    /\ \A i, j \in 1..Len(ReadIndex(Store)) :
           i # j => ReadIndex(Store)[i].id # ReadIndex(Store)[j].id
    /\ IndexIds(Store) = DOMAIN docs

(***************************************************************************)
(* SpecMig: migrateIfNeeded alone, called again and again, on every        *)
(* combination of legacy slot, index and current selection.                *)
(***************************************************************************)
OldDoc == Snapshot(1, "A", LegacyTime, LegacyTime, <<>>)

OldMeta == Meta(1, "A", LegacyTime, LegacyTime)

InitMig ==
    /\ legacy \in InitLegacy \cup {LegacyOk(OldDoc)}
    /\ index \in {IndexAbsent, IndexOf(<<>>), IndexOf(<<OldMeta>>)}
    /\ cur \in {NoId, 1}
    /\ docs \in {NoDocs, PutDoc(NoDocs, OldDoc)}
    /\ opsq = <<>>
    /\ nextId = 2
    /\ clock = StartClock
    /\ fl = [p \in Flushes |-> FlushIdle]
    /\ migRuns = 0
    /\ origin = legacy
    /\ sync = SyncInit
    /\ last = LastInit

NextMig == Tick \/ DoMigrateIfNeeded

SpecMig == InitMig /\ [][NextMig]_vars

\* C8: once migrateIfNeeded has been called, a further call changes nothing.
C8_MigrationIdempotent ==
    last.op = "migrateIfNeeded" => MigrateIfNeeded(Store) = {Store}

C8_Witness == last.op = "migrateIfNeeded" /\ migRuns = 1 /\ ~last.mig

(***************************************************************************)
(* SpecNames: the name utilities and the operations that check names, with *)
(* the operations that make and remove lists.                              *)
(***************************************************************************)
NamesUnique == {"A", " a ", "  ", "My list"}

NextNames ==
    \/ \E name \in NamesUnique : DoNameExists(name)
    \/ \E name \in NamesUnique : DoCreateAndSelectListUnique(name)
    \/ \E name \in NamesUnique : DoRenameCurrentListUnique(name)
    \/ \E name \in NamesUnique : DoOpenExistingByName(name)
    \/ \E id \in KnownIds : DoSelectList(id)
    \/ \E id \in KnownIds : DoDeleteListById(id)
    \/ \E snap \in SaveInputs : DoSaveSnapshot(snap)
    \/ DoGetAllLists
    \/ DoLoadSnapshot
    \/ Tick

SpecNames == Init /\ [][NextNames]_vars

\* C12: an operation called while the migration is pending (legacy slot present,
\* index or selection missing) runs the body of migrateIfNeeded, so that what it
\* reads is the migrated storage.
C12_MigratesBeforeRead ==
    [][(MigrationNeeded(Store) /\ last' # last) => migRuns' = migRuns + 1]_vars

\* The step is a call of op (the history tells, or the storage has changed).
IsCallOf(op) == last'.op = op /\ (last' # last \/ storeVars' # storeVars)

Slots(S) == <<S.legacy, S.index, S.cur, S.docs, S.opsq>>

\* C13: createAndSelectListUnique(name), called when an index entry has the same
\* name after trimming and lower-casing both, answers 'duplicate' and creates no
\* list: index, documents, selection and legacy slot stay as they were.
C13_DuplicateRefused ==
    [][(IsCallOf("createAndSelectListUnique") /\ NameTaken(Store, last'.name)) =>
          /\ last'.res = "duplicate"
          /\ Slots(Store)' = Slots(Store)]_vars

\* The reasons for which C14 has renameCurrentListUnique(newName) fail on S.
RenameRefusals(S, newName) ==
    {r \in {"notfound", "invalid", "duplicate"} :
        \/ r = "notfound" /\ (S.cur = NoId \/ S.cur \notin DOMAIN S.docs)
        \/ r = "invalid" /\ Trim(newName) = ""
        \/ r = "duplicate" /\ \E i \in 1..Len(ReadIndex(S)) :
                                   /\ ReadIndex(S)[i].id # S.cur
                                   /\ Lower(Trim(ReadIndex(S)[i].name)) = Lower(Trim(newName))}

\* C14: renameCurrentListUnique(newName) succeeds exactly when there is a current
\* list with a document, newName is not blank and no other list's index entry has
\* the same trimmed lower-cased name; otherwise it answers with the reason of a
\* condition that fails and leaves every storage slot as it was.  Stated for the
\* runs that start on fresh storage, where no legacy list waits to be migrated.
C14_RenameUnique ==
    [][(IsCallOf("renameCurrentListUnique") /\ origin.st = "absent") =>
          IF RenameRefusals(Store, last'.name) = {}
          THEN last'.res = "ok"
          ELSE /\ last'.res \in RenameRefusals(Store, last'.name)
               /\ Slots(Store)' = Slots(Store)]_vars

(***************************************************************************)
(* SpecItems: the item mutations, online and offline, with the deletion of *)
(* lists, on fresh or legacy-only storage.                                 *)
(***************************************************************************)
AddedItem == Item(1, FALSE)

ItemsIn == {<<>>, <<Item(1, TRUE)>>}

ItemMutation(online) ==
    \/ DoAddItem(AddedItem, online)
    \/ DoUpdateItem(1, [done |-> TRUE], online)
    \/ DoToggleItem(1, online)
    \/ DoDeleteItem(1, online)

NextItems ==
    \/ \E online \in BOOLEAN : ItemMutation(online)
    \/ \E items \in ItemsIn : DoReplaceItems(items)
    \/ \E id \in KnownIds : DoDeleteListById(id)
    \/ DoLoadSnapshot
    \/ Tick

SpecItems == Init /\ [][NextItems]_vars

ItemOps == {"add", "update", "toggle", "delete", "replaceItems"}

\* The step is a call of an item mutation.
IsItemCall == last'.op \in ItemOps /\ (last' # last \/ storeVars' # storeVars)

\* C16: an item mutation called where loadSnapshot() would return null creates one
\* list named "My list", indexed once and selected, and applies the mutation to
\* it: addItem(x) leaves that list with the items [x].
C16_AutoCreate ==
    /\ []((origin.st = "absent" /\ last.op = "none") =>
             \A o \in LoadSnapshot(Store) : o.ret = Null)
    /\ [][(IsItemCall /\ \A o \in LoadSnapshot(Store) : o.ret = Null) =>
           /\ cur' # NoId
           /\ cur' \notin DOMAIN docs \cup IndexIds(Store)
           /\ DOMAIN docs' = DOMAIN docs \cup {cur'}
           /\ Len(ReadIndex(Store)') = Len(ReadIndex(Store)) + 1
           /\ IndexIds(Store)' = IndexIds(Store) \cup {cur'}
           /\ \A i \in 1..Len(ReadIndex(Store)') :
                 ReadIndex(Store)'[i].id = cur' => ReadIndex(Store)'[i].name = DefaultName
           /\ docs'[cur'].name = DefaultName
           /\ last'.op = "add" => docs'[cur'].items = <<AddedItem>>
           /\ last'.op \in {"update", "toggle", "delete"} => docs'[cur'].items = <<>>
           /\ last'.op = "replaceItems" => docs'[cur'].items \in ItemsIn]_vars

\* addItem(x) on storage without a list has made the list.
C16_Witness ==
    /\ last.op = "add"
    /\ last.cur0 = NoId
    /\ ~last.mig
    /\ origin.st = "absent"
    /\ Len(ReadIndex(Store)) = 1
    /\ index.metas[1].name = DefaultName
    /\ cur = index.metas[1].id
    /\ docs[cur].items = <<AddedItem>>

\* The history entry of a pending op.
OpEntry(op) == [type |-> op.type, id |-> IF op.type = "add" THEN op.item.id ELSE op.id]

QueuedOps == {"add", "update", "toggle", "delete"}

\* C18: an item mutation made offline appends one pending op of its type (and for
\* its item) to the end of the persisted queue, one made online leaves the queue
\* as it is; so the queue lists the offline mutations in the order they were made.
C18_OfflineEnqueue ==
    /\ [][(last'.op \in QueuedOps /\ (last' # last \/ storeVars' # storeVars \/ sync' # sync)) =>
             IF sync'.log # sync.log
             THEN /\ Len(opsq') = Len(opsq) + 1
                  /\ SubSeq(opsq', 1, Len(opsq)) = opsq
                  /\ opsq'[Len(opsq')].type = last'.op
                  /\ OpEntry(opsq'[Len(opsq')]).id = last'.id
             ELSE opsq' = opsq]_vars
    /\ [](/\ Len(opsq) = Len(sync.log)
           /\ \A k \in 1..Len(opsq) : OpEntry(opsq[k]) = sync.log[k])

\* Three offline mutations are queued in the order they were made.
C18_Witness ==
    /\ Len(opsq) = 3
    /\ opsq[1].type = "add"
    /\ opsq[2].type = "toggle"
    /\ opsq[3].type = "delete"
    /\ last.op = "update"
    /\ Len(sync.log) = 3

(***************************************************************************)
(* SpecQuota: the facade on storage whose setItem may throw during a call   *)
(* (quota exceeded); removeItem and getItem work.                          *)
(***************************************************************************)
\* The storage as the call finds it: setItem throws or not.
Env(full) == [Store EXCEPT !.full = full]

\* One call: the history keeps whether the call returned or threw.
QuotaCall(op, id, outs) ==
    /\ \E o \in outs :
          /\ o.S.nextId <= MaxIds + 1
          /\ SetStore(o.S)
          /\ last' = [op |-> op, id |-> id, cur0 |-> cur, mig |-> o.S.migRuns > migRuns,
                       name |-> NoName,
                       res |-> IF o.S.thrown THEN "throws" ELSE "returns",
                       writes |-> <<>>]
    /\ UNCHANGED <<fl, origin, sync>>

\* The outcomes whose stored lists stay within MaxItems items, whatever the call
\* returns: a call whose writes fail returns its snapshot and stores nothing.
Storable(outs) ==
    {o \in outs : \A id \in DOMAIN o.S.docs : Len(o.S.docs[id].items) <= MaxItems}

NextQuota ==
    \E full \in BOOLEAN :
          \/ QuotaCall("createAndSelectList", NoId, CreateAndSelectList(Env(full), "A"))
          \/ QuotaCall("createNewList", NoId, CreateNewList(Env(full)))
          \/ QuotaCall("getAllLists", NoId, GetAllLists(Env(full)))
          \/ QuotaCall("loadSnapshot", NoId, LoadSnapshot(Env(full)))
          \/ \E id \in KnownIds : QuotaCall("selectList", id, SelectList(Env(full), id))
          \/ QuotaCall("renameCurrentList", NoId, RenameCurrentList(Env(full), " a "))
          \/ \E id \in KnownIds :
                QuotaCall("deleteListById", id, DeleteListById(Env(full), id))
          \/ QuotaCall("add", AddedItem.id, Storable(AddItem(Env(full), AddedItem, TRUE)))

SpecQuota == Init /\ [][NextQuota]_vars

\* C19: no call of a facade operation ends in an exception, whether the storage
\* accepts its writes or not.
C19_NeverThrows == last.res # "throws"

(***************************************************************************)
(* SpecOrder: the operations that write a list, the item mutations online  *)
(* and offline, on fresh storage, with the order in which each call writes *)
(* the storage keys.                                                       *)
(***************************************************************************)
\* One call: the history keeps the keys the call wrote, in order.
OrderCall(op, id, outs) ==
    /\ \E o \in outs :
          /\ o.S.nextId <= MaxIds + 1
          /\ SetStore(o.S)
          /\ last' = [op |-> op, id |-> id, cur0 |-> cur, mig |-> o.S.migRuns > migRuns,
                       name |-> NoName, res |-> "none", writes |-> o.S.writes]
    /\ UNCHANGED <<fl, origin, sync>>

\* The outcomes that stay within MaxItems items.
Bounded(outs) == {o \in outs : Len(o.ret[1].items) <= MaxItems}

\* The queue of pending ops holds at most MaxOrderQueue ops in SpecOrder.
MaxOrderQueue == 1

\* One call of an item mutation, online or offline: the history keeps which it
\* was, and the keys the call wrote.
ItemOrderCall(op, online, outs) ==
    /\ online \/ Len(opsq) < MaxOrderQueue
    /\ \E o \in Bounded(outs) :
          /\ o.S.nextId <= MaxIds + 1
          /\ SetStore(o.S)
          /\ last' = [op |-> op, id |-> 1, cur0 |-> cur, mig |-> o.S.migRuns > migRuns,
                       name |-> NoName, res |-> IF online THEN "online" ELSE "offline",
                       writes |-> o.S.writes]
    /\ UNCHANGED <<fl, origin, sync>>

NextOrder ==
    \/ OrderCall("createAndSelectList", NoId, CreateAndSelectList(Store, "A"))
    \/ \E id \in KnownIds : OrderCall("selectList", id, SelectList(Store, id))
    \/ OrderCall("renameCurrentList", NoId, RenameCurrentList(Store, " a "))
    \/ \E online \in BOOLEAN :
          \/ ItemOrderCall("add", online, AddItem(Store, AddedItem, online))
          \/ ItemOrderCall("update", online, UpdateItem(Store, 1, [done |-> TRUE], online))
          \/ ItemOrderCall("toggle", online, ToggleItem(Store, 1, online))
          \/ ItemOrderCall("delete", online, DeleteItem(Store, 1, online))
    \/ \E items \in ItemsIn : OrderCall("replaceItems", NoId, ReplaceItems(Store, items))
    \/ \E id \in DOMAIN docs : OrderCall("saveSnapshot", id, SaveSnapshot(Store, docs[id]))

SpecOrder == InitFrom({LegacyAbsent}) /\ [][NextOrder]_vars

MutatingOps ==
    {"renameCurrentList", "add", "update", "toggle", "delete", "replaceItems", "saveSnapshot"}

\* The last call was a mutation of the list that was current when it was called.
OnCurrentList ==
    /\ last.op \in MutatingOps
    /\ last.cur0 # NoId
    /\ ~last.mig
    /\ last.op = "saveSnapshot" => last.id = last.cur0

Rank(key) == CASE key = "doc" -> 1 [] key = "index" -> 2 [] key = "legacy" -> 3 [] OTHER -> 4

\* The writes of the last call to the document, the index and the legacy slot.
ListWrites ==
    LET OfList(key) == key \in {"doc", "index", "legacy"}
    IN SeqFilter(last.writes, OfList)

\* C20 as stated: a mutating call on the current list writes the document, then
\* the index, then the legacy slot, no write of a later kind before one of an
\* earlier kind.
C20_DocIndexLegacy ==
    OnCurrentList =>
        /\ {ListWrites[i] : i \in 1..Len(ListWrites)} = {"doc", "index", "legacy"}
        /\ \A i, j \in 1..Len(ListWrites) :
              i < j => Rank(ListWrites[i]) <= Rank(ListWrites[j])

\* C20 as amended: a mutating call on the current list writes the document, the
\* legacy slot, the index twice and the legacy slot again, in this order, and an
\* item mutation made offline then writes the queue of pending ops; it writes
\* nothing else.
C20_WriteOrder ==
    OnCurrentList =>
        last.writes = <<"doc", "legacy", "index", "index", "legacy">>
                          \o (IF last.res = "offline" THEN <<"ops">> ELSE <<>>)

\* An item was added offline to the current one of two lists.
C20_Witness ==
    /\ OnCurrentList
    /\ last.op = "add"
    /\ last.res = "offline"
    /\ Len(ReadIndex(Store)) = 2
    /\ last.writes = <<"doc", "legacy", "index", "index", "legacy", "ops">>
    /\ docs[cur].items = <<AddedItem>>
    /\ Len(opsq) > 0
    /\ opsq[Len(opsq)].type = "add"

(***************************************************************************)
(* SpecDelete: the deletion of lists: deleteListById run to its end,       *)
(* deleteListById interrupted after one of its writes, and                 *)
(* removeListById of storage.ts, among the operations that make lists.     *)
(***************************************************************************)
\* deleteListById makes at most four writes, the migration it runs first when one
\* is pending at most five before them.
CrashPoints == 1..9

\* deleteListById(id) is interrupted after its k-th write.
DoCrashedDelete(id, k) ==
    Call("crashedDelete", id,
         {o \in DeleteListById([Store EXCEPT !.crashAt = k], id) : o.S.thrown}, <<>>)

DoRemoveListById(id) == Call("removeListById", id, {RemoveListById(Store, id)}, <<>>)

NextDelete ==
    \/ \E name \in NamesIn : DoCreateAndSelectList(name)
    \/ \E id \in KnownIds : DoSelectList(id)
    \/ DoAddItem(AddedItem, TRUE)
    \/ DoGetAllLists
    \/ \E id \in KnownIds : DoDeleteListById(id)
    \/ \E id \in KnownIds, k \in CrashPoints : DoCrashedDelete(id, k)
    \/ \E id \in KnownIds : DoRemoveListById(id)

SpecDelete == Init /\ [][NextDelete]_vars

\* The storage slots deleteListById(id) leaves when it runs to its end on S.
AfterDelete(S, id) == {Slots(o.S) : o \in DeleteListById(S, id)}

\* C23: when deleteListById(id), called with no migration pending, was interrupted
\* after one of its writes, calling it again with the same id leaves the storage
\* that the uninterrupted call would have left.
C23_CrashSafeDelete ==
    [][(last'.op = "crashedDelete" /\ (last' # last \/ storeVars' # storeVars)
          /\ ~MigrationNeeded(Store)) =>
          AfterDelete(Store', last'.id) = AfterDelete(Store, last'.id)]_vars

\* C29: after removeListById has removed the selected list and no list remains,
\* the migration a following getAllLists() runs is a no-op: the listing stays
\* empty and no list is made from the legacy slot.
C29_NoResurrection ==
    [][(/\ last.op = "removeListById"
        /\ last.cur0 = last.id
        /\ last.id # NoId
        /\ ReadIndex(Store) = <<>>
        /\ docs = NoDocs
        /\ last'.op = "getAllLists") =>
          /\ ~last'.mig
          /\ ReadIndex(Store') = <<>>
          /\ docs' = NoDocs]_vars

(***************************************************************************)
(* SpecIdentity: the item mutations on one list of up to MaxSameList       *)
(* items, with the item ids and patches a caller can pass.                 *)
(***************************************************************************)
MaxSameList == 2

ItemIds == {1, 2}

\* Partial<Item>: any subset of the fields of an item
Patches == {[done |-> TRUE], [id |-> 2]}

\* The outcomes that stay within MaxSameList items.
Within(outs) == {o \in outs : Len(o.ret[1].items) <= MaxSameList}

NextIdentity ==
    \/ Tick
    \/ \E id \in ItemIds :
          Call("add", id, Within(AddItem(Store, Item(id, FALSE), TRUE)), <<>>)
    \/ \E id \in ItemIds, patch \in Patches :
          Call("update", id, Within(UpdateItem(Store, id, patch, TRUE)), <<>>)
    \/ \E id \in ItemIds :
          Call("toggle", id, Within(ToggleItem(Store, id, TRUE)), <<>>)
    \/ \E id \in ItemIds :
          Call("delete", id, Within(DeleteItem(Store, id, TRUE)), <<>>)
    \/ \E items \in ItemsIn : DoReplaceItems(items)

SpecIdentity == InitFrom({LegacyAbsent}) /\ [][NextIdentity]_vars

\* The ids of the items of a list, in order.
IdsOf(items) == [i \in 1..Len(items) |-> items[i].id]

\* C24: no two items of a stored list have the same id, and updateItem leaves the
\* id of every item as it was.
C24_ItemIdentity ==
    /\ [](\A l \in DOMAIN docs :
             \A i, j \in 1..Len(docs[l].items) :
                 i # j => docs[l].items[i].id # docs[l].items[j].id)
    /\ [][(last'.op = "update" /\ last' # last /\ cur \in DOMAIN docs) =>
             IdsOf(docs'[cur'].items) = IdsOf(docs[cur].items)]_vars

(***************************************************************************)
(* SpecLists: several lists over time: the operations that make, select,   *)
(* rename and delete lists and the item mutations, online.                 *)
(***************************************************************************)
NextLists ==
    \/ Tick
    \/ DoCreateAndSelectList("A")
    \/ \E id \in KnownIds : DoSelectList(id)
    \/ DoRenameCurrentList(" a ")
    \/ DoRenameCurrentListUnique("My list")
    \/ ItemMutation(TRUE)
    \/ \E items \in ItemsIn : DoReplaceItems(items)
    \/ \E id \in KnownIds : DoDeleteListById(id)

SpecLists == Init /\ [][NextLists]_vars

\* What getAllLists() returns from storage S.
Listed(S) == {o.ret : o \in GetAllLists(S)}

RecencyOps ==
    {"createAndSelectList", "selectList", "renameCurrentList",
     "add", "update", "toggle", "delete"}

\* A call of one of RecencyOps that succeeded on the list that is current after
\* it, at a time later than every updatedAt the index held, the call not being
\* the one that imports the legacy list (the import and the call's own change
\* are stamped by successive reads of the clock, which may show the same time).
TouchedLater ==
    /\ last'.op \in RecencyOps
    /\ last' # last \/ storeVars' # storeVars
    /\ ~last'.mig
    /\ cur' \in DOMAIN docs'
    /\ last'.op = "selectList" => last'.id = cur'
    /\ \A i \in 1..Len(ReadIndex(Store)) : ReadIndex(Store)[i].updatedAt < clock

\* C26: getAllLists() returns the index entries ordered by non-increasing
\* updatedAt, and after a successful createAndSelectList, selectList,
\* renameCurrentList or item mutation on a list, at a time later than every
\* earlier one, the first entry it returns is that list.
C26_RecencyListing ==
    /\ [](\A l \in Listed(Store) : \A i, j \in 1..Len(l) :
              i < j => l[i].updatedAt >= l[j].updatedAt)
    /\ [][TouchedLater =>
             \A l \in Listed(Store') : Len(l) > 0 /\ l[1].id = cur']_vars

\* selectList has just selected, at a later time, a list whose entry is not the
\* first of the stored index: the listing has to put it first.
C26_Witness ==
    /\ last.op = "selectList"
    /\ ~last.mig
    /\ last.id = cur
    /\ cur \in DOMAIN docs
    /\ Len(ReadIndex(Store)) = 2
    /\ ReadIndex(Store)[1].id # cur
    /\ ReadIndex(Store)[1].updatedAt < clock
    /\ ReadIndex(Store)[2].id = cur
    /\ ReadIndex(Store)[2].updatedAt = clock

\* The index entries of a list, with how many times each is there.
MetasOf(S, id) ==
    [m \in {ReadIndex(S)[i] : i \in {j \in 1..Len(ReadIndex(S)) : ReadIndex(S)[j].id = id}} |->
        Cardinality({i \in 1..Len(ReadIndex(S)) : ReadIndex(S)[i] = m})]

\* C30: with a current list whose document exists, addItem, updateItem,
\* toggleItem, deleteItem and replaceItems leave the current selection, and the
\* document and the index entries of every other list, unchanged.
C30_OnlyCurrentList ==
    [][(/\ last'.op \in ItemOps
        /\ last' # last \/ storeVars' # storeVars
        /\ cur \in DOMAIN docs) =>
          /\ cur' = cur
          /\ DOMAIN docs' = DOMAIN docs
          /\ \A id \in (DOMAIN docs \cup IndexIds(Store) \cup IndexIds(Store')) \ {cur} :
                 /\ id \in DOMAIN docs => docs'[id] = docs[id]
                 /\ MetasOf(Store', id) = MetasOf(Store, id)]_vars

\* An item mutation has just changed the current list while another list is
\* stored and indexed.
C30_Witness ==
    /\ last.op \in ItemOps
    /\ last.cur0 = cur
    /\ cur \in DOMAIN docs
    /\ docs[cur].updatedAt = clock
    /\ \E id \in DOMAIN docs \ {cur} :
           /\ id \in IndexIds(Store)
           /\ docs[id].updatedAt < clock
           /\ docs[id].items # docs[cur].items

(***************************************************************************)
(* SpecUnique: fresh storage, lists made and renamed through the           *)
(* uniqueness-checked operations only, and the item mutations.             *)
(***************************************************************************)
NextUnique ==
    \/ \E name \in NamesUnique : DoCreateAndSelectListUnique(name)
    \/ \E name \in NamesUnique : DoRenameCurrentListUnique(name)
    \/ \E id \in KnownIds : DoSelectList(id)
    \/ \E id \in KnownIds : DoDeleteListById(id)
    \/ ItemMutation(TRUE)
    \/ \E items \in ItemsIn : DoReplaceItems(items)

SpecUnique == InitFrom({LegacyAbsent}) /\ [][NextUnique]_vars

\* C27: from fresh storage, after any sequence of createAndSelectListUnique,
\* renameCurrentListUnique, selectList, deleteListById and item mutations (their
\* auto-create of "My list" included), no two index entries have names that are
\* equal after trimming and lower-casing.
C27_NamesUnique ==
    \A i, j \in 1..Len(ReadIndex(Store)) :
        i # j => NormName(NameOrEmpty(ReadIndex(Store)[i].name))
                    # NormName(NameOrEmpty(ReadIndex(Store)[j].name))

\* Two lists, and a name that differs from the other list's only in case and
\* spaces has just been refused.
C27_Witness ==
    /\ Len(ReadIndex(Store)) = 2
    /\ last.op \in {"createAndSelectListUnique", "renameCurrentListUnique"}
    /\ last.res = "duplicate"
    /\ \E i \in 1..2 : /\ NormName(ReadIndex(Store)[i].name) = NormName(last.name)
                        /\ ReadIndex(Store)[i].name # last.name

(***************************************************************************)
(* SpecFlush: offline item mutations, invocations of flushPendingOps and   *)
(* resetStorage, in every interleaving.                                    *)
(***************************************************************************)
InitFlush == InitFrom({LegacyAbsent})

OfflineMutation ==
    \/ DoAddItem(Item(1, FALSE), FALSE)
    \/ DoUpdateItem(1, [done |-> TRUE], FALSE)
    \/ DoToggleItem(1, FALSE)
    \/ DoDeleteItem(1, FALSE)

Awaiting == {p \in Flushes : fl[p].pc = "await"}

NextFlush ==
    \/ OfflineMutation
    \/ \E p \in Flushes : FlushStart(p)
    \/ \E p \in Flushes : SenderResolve(p)
    \/ \E p \in Flushes : SenderReject(p)
    \/ DoResetStorage

SpecFlush == InitFlush /\ [][NextFlush]_vars

\* SpecFlushSeq: the caller starts a flush only when none is in progress.
NextFlushSeq ==
    \/ OfflineMutation
    \/ Awaiting = {} /\ \E p \in Flushes : FlushStart(p)
    \/ \E p \in Flushes : SenderResolve(p)
    \/ \E p \in Flushes : SenderReject(p)

SpecFlushSeq == InitFlush /\ [][NextFlushSeq]_vars

\* SpecFlushOk: every sender promise resolves, and nothing is enqueued while a
\* flush is in progress.
NextFlushOk ==
    \/ Awaiting = {} /\ OfflineMutation
    \/ \E p \in Flushes : FlushStart(p)
    \/ \E p \in Flushes : SenderResolve(p)

SpecFlushOk ==
    InitFlush /\ [][NextFlushOk]_vars /\ \A p \in Flushes : WF_vars(SenderResolve(p))

\* C3: when the sender rejects on the K-th of the N ops of a flush, the flush
\* rejects having called sender on ops 1..K only, it calls sender no more, and the
\* persisted queue is left as it was, the N ops in front in their order.
C3_RejectKeepsQueue ==
    [][\A p \in Flushes :
          /\ (fl[p].pc = "await" /\ fl'[p].pc = "rejected") =>
                /\ opsq' = opsq
                /\ IsPrefix(fl[p].ops, opsq')
                /\ fl'[p].calls = [k \in 1..fl[p].i |-> k]
          /\ fl[p].pc = "rejected" => fl'[p] = fl[p]]_vars

C3_Witness ==
    \E p \in Flushes :
        /\ fl[p].pc = "rejected"
        /\ Len(fl[p].ops) >= 2
        /\ fl[p].i = 2
        /\ opsq = fl[p].ops

\* C4: no op leaves the persisted queue without its sender promise resolved.
C4_NoOpDropped == sync.dropped = {}

\* C5: a flush calls sender on the queued ops in the order they were enqueued,
\* one after the other, each call after the promise before it has resolved.
C5_ReplayOrder ==
    \A p \in Flushes :
        /\ fl[p].calls = [k \in 1..Len(fl[p].calls) |-> k]
        /\ Len(fl[p].calls) <= fl[p].acks + 1
        /\ Len(fl[p].calls) <= Len(fl[p].ops)
        /\ fl[p].base + Len(fl[p].calls) <= Len(sync.log)
        /\ \A k \in 1..Len(fl[p].calls) :
              OpEntry(fl[p].ops[fl[p].calls[k]]) = sync.log[fl[p].base + k]

C5_Witness ==
    \E p \in Flushes : fl[p].pc = "done" /\ Len(fl[p].calls) = 3 /\ fl[p].acks = 3

\* C6: at most one sender call is in flight.
C6_OneInFlight == Cardinality(Awaiting) <= 1

\* C7: with a sender that always resolves and no op enqueued meanwhile, a flush
\* resolves in the end, the persisted queue is then empty and none of its ops was
\* left unsent; on an empty queue it resolves at once, without a sender call.
C7_FlushSucceeds ==
    /\ [][\A p \in Flushes :
             /\ (fl[p].pc = "await" /\ fl'[p].pc = "done") =>
                   /\ opsq' = <<>>
                   /\ sync'.dropped = {}
                   /\ fl'[p].acks = Len(fl[p].ops)
             /\ (fl[p].pc = "idle" /\ opsq = <<>> /\ fl'[p] # fl[p]) =>
                   fl'[p].pc = "done" /\ fl'[p].calls = <<>>]_vars
    /\ \A p \in Flushes : (fl[p].pc = "await") ~> (fl[p].pc = "done")

C7_Witness ==
    \E p \in Flushes : fl[p].pc = "done" /\ Len(fl[p].ops) = 3 /\ opsq = <<>> /\ Len(sync.log) = 3

====
